---- MODULE Spec2Model ----
(***************************************************************************)
(* A model of Mantel.Test (src/Mantel.py): validation of the two distance  *)
(* inputs, their normalisation to condensed vectors, the preparation of    *)
(* the correlation coefficient, the Monte Carlo permutation loop and the   *)
(* final statistics.                                                       *)
(*                                                                         *)
(* Arrays are records [shape, data, den]: shape is the numpy shape, data   *)
(* the elements in logical (row-major) order as integers, and den a common *)
(* positive denominator, so that element k has the value data[k] / den.    *)
(* Floating point is modelled as exact real arithmetic: a dtype=float      *)
(* input has den = 1, ranks have den = 2, residuals of a vector of length  *)
(* L have den multiplied by L.                                             *)
(*                                                                         *)
(* Scalars are records [k, num, den] with k one of "fin", "nan", "inf",    *)
(* "-inf" (IEEE results of numpy's float division).  What num and den mean *)
(* is stated at the operator that computes the scalar.                      *)
(***************************************************************************)
EXTENDS Integers, Sequences, FiniteSets, TLC

\* ------------------------------------------------------------------ bounds
\* Largest number of Monte Carlo trials of a call.
MaxPerms == 2
\* Largest number of elements of an exhaustively enumerated input array.
MaxLen == 4
\* Largest distance value of an exhaustively enumerated input array.
MaxVal == 1

\* ----------------------------------------------------------------- helpers
RECURSIVE SumSeq(_)
SumSeq(s) ==
  IF s = <<>> THEN 0 ELSE s[1] + SumSeq(Tail(s))

\* sum(a * b) of two equally long 1-D arrays' data.
Dot(a, b) ==
  SumSeq([k \in 1..Len(a) |-> a[k] * b[k]])

\* d * (d - 1) / 2: the number of pairs of d objects.
Tri(d) ==
  (d * (d - 1)) \div 2

\* int(ceil(sqrt(2 * len))): the smallest d with d * d >= 2 * len.
CeilSqrt2(len) ==
  CHOOSE d \in 0..(2 * len) :
    /\ d * d >= 2 * len
    /\ \A e \in 0..(2 * len) : e * e >= 2 * len => d <= e

\* numpy.asarray of a flat sequence (1-D) and of r rows of c columns (2-D).
Arr1(v) ==
  [shape |-> <<Len(v)>>, data |-> v, den |-> 1]

Arr2(r, c, v) ==
  [shape |-> <<r, c>>, data |-> v, den |-> 1]

\* A[i, j] of a 2-D array, i and j counted from 0.
At(A, i, j) ==
  A.data[i * A.shape[2] + j + 1]

\* numpy.zeros(len, dtype=float).
Zeros(len) ==
  Arr1([k \in 1..len |-> 0])

\* Scalars.
Fin(n, d) ==
  [k |-> "fin", num |-> n, den |-> d]

NaN ==
  [k |-> "nan", num |-> 0, den |-> 1]

Inf ==
  [k |-> "inf", num |-> 0, den |-> 1]

NegInf ==
  [k |-> "-inf", num |-> 0, den |-> 1]

\* ------------------------------------------------- scipy.spatial.distance
\* (D == D.T).all() under numpy broadcasting: a square array is compared
\* with its transpose; a single row or column is broadcast against its
\* transpose, which compares every element with every other; other shapes
\* do not broadcast and the comparison fails.
EqualsTranspose(D) ==
  LET r == D.shape[1]
      c == D.shape[2]
  IN  IF r = c
        THEN \A i \in 0..(r - 1), j \in 0..(c - 1) : At(D, i, j) = At(D, j, i)
        ELSE IF r = 1 \/ c = 1
          THEN \A a, b \in 1..Len(D.data) : D.data[a] = D.data[b]
          ELSE FALSE

\* (D[range(s[0]), range(s[0])] == 0).all(): element (k, k) for every row k;
\* an index beyond the last column fails.
ZeroDiagonal(D) ==
  /\ D.shape[1] <= D.shape[2]
  /\ \A k \in 0..(D.shape[1] - 1) : At(D, k, k) = 0

\* is_valid_dm without the symmetry test.
is_valid_dm_unsymmetric(D) ==
  /\ Len(D.shape) = 2
  /\ ZeroDiagonal(D)

\* distance.is_valid_dm(D): two dimensions, symmetric, zero diagonal; every
\* failure inside it is caught and reported as False.
is_valid_dm(D) ==
  /\ Len(D.shape) = 2
  /\ EqualsTranspose(D)
  /\ ZeroDiagonal(D)

\* A 1-D array accepted whatever its length.
is_valid_y_any_length(y) ==
  Len(y.shape) = 1

\* distance.is_valid_y(y): one dimension, and a length that is the number of
\* pairs d * (d - 1) / 2 of d = ceil(sqrt(2 * length)) objects.
is_valid_y(y) ==
  /\ Len(y.shape) = 1
  /\ Tri(CeilSqrt2(y.shape[1])) = y.shape[1]

\* The loop of to_vector_from_squareform: for i < n - 1, for i < j < n, the
\* next entry of v is set to M[i * n + j] of the matrix's memory.
RECURSIVE ToVectorLoop(_, _, _, _, _, _)
ToVectorLoop(raw, n, v, i, j, it) ==
  IF i >= n - 1 THEN v
  ELSE IF j >= n THEN ToVectorLoop(raw, n, v, i + 1, i + 2, it)
  ELSE ToVectorLoop(raw, n, [v EXCEPT ![it + 1] = raw[i * n + j + 1]],
                    i, j + 1, it + 1)

\* The same loop with the inner bound one short: the last column is skipped.
RECURSIVE ToVectorLoopShort(_, _, _, _, _, _)
ToVectorLoopShort(raw, n, v, i, j, it) ==
  IF i >= n - 1 THEN v
  ELSE IF j >= n - 1 THEN ToVectorLoopShort(raw, n, v, i + 1, i + 2, it)
  ELSE ToVectorLoopShort(raw, n, [v EXCEPT ![it + 1] = raw[i * n + j + 1]],
                         i, j + 1, it + 1)

\* to_vector_from_squareform_wrap with the short inner loop.
to_vector_short(raw, n, v) ==
  ToVectorLoopShort(raw, n, v, 0, 1, 0)

\* _distance_wrap.to_vector_from_squareform_wrap(M, v): writes into the data
\* of v from the memory raw of an n x n matrix; returns v's new data.
to_vector_from_squareform_wrap(raw, n, v) ==
  ToVectorLoop(raw, n, v, 0, 1, 0)

\* The loop of to_squareform_from_vector: for i < n - 1, for i < j < n, both
\* M[i * n + j] and M[j * n + i] are set to the next entry of v.
RECURSIVE ToMatrixLoop(_, _, _, _, _, _)
ToMatrixLoop(v, n, M, i, j, it) ==
  IF i >= n - 1 THEN M
  ELSE IF j >= n THEN ToMatrixLoop(v, n, M, i + 1, i + 2, it)
  ELSE ToMatrixLoop(v, n,
                    [M EXCEPT ![i * n + j + 1] = v[it + 1],
                              ![j * n + i + 1] = v[it + 1]],
                    i, j + 1, it + 1)

\* The same loop without the mirrored store: only the upper triangle is set.
RECURSIVE ToMatrixLoopUpper(_, _, _, _, _, _)
ToMatrixLoopUpper(v, n, M, i, j, it) ==
  IF i >= n - 1 THEN M
  ELSE IF j >= n THEN ToMatrixLoopUpper(v, n, M, i + 1, i + 2, it)
  ELSE ToMatrixLoopUpper(v, n, [M EXCEPT ![i * n + j + 1] = v[it + 1]],
                         i, j + 1, it + 1)

squareform_upper_only(v) ==
  LET d == IF v.shape[1] = 0 THEN 1 ELSE CeilSqrt2(v.shape[1])
  IN  [shape |-> <<d, d>>,
       data  |-> ToMatrixLoopUpper(v.data, d, [k \in 1..(d * d) |-> 0], 0, 1, 0),
       den   |-> v.den]

\* distance.squareform(v, 'tomatrix', False) of a 1-D array whose length is
\* a number of pairs: an empty vector gives the 1 x 1 zero matrix, otherwise
\* d = ceil(sqrt(2 * length)) and the d x d zero matrix is filled from v.
squareform_tomatrix(v) ==
  LET d == IF v.shape[1] = 0 THEN 1 ELSE CeilSqrt2(v.shape[1])
  IN  [shape |-> <<d, d>>,
       data  |-> ToMatrixLoop(v.data, d, [k \in 1..(d * d) |-> 0], 0, 1, 0),
       den   |-> v.den]

\* distance.squareform(M, 'tovector', False) of a square 2-D array: a vector
\* of d * (d - 1) / 2 zeros filled from M (empty when d <= 1).
squareform_tovector(M) ==
  LET d == M.shape[1]
  IN  [shape |-> <<Tri(d)>>,
       data  |-> to_vector_from_squareform_wrap(M.data, d,
                                                [k \in 1..Tri(d) |-> 0]),
       den   |-> M.den]

\* ------------------------------------------------------------ scipy.stats
\* rankdata(a): the average rank of each element, ties sharing the mean of
\* the ranks they occupy: rank = #smaller + (#equal + 1) / 2, held as
\* 2 * rank over the denominator 2.
rankdata(a) ==
  [shape |-> a.shape,
   data  |-> [k \in 1..Len(a.data) |->
                2 * Cardinality({j \in 1..Len(a.data) : a.data[j] < a.data[k]})
                + Cardinality({j \in 1..Len(a.data) : a.data[j] = a.data[k]})
                + 1],
   den   |-> 2 * a.den]

\* ------------------------------------------------------------------ numpy
\* a - a.mean(): element k is data[k] / den - sum / (L * den), that is
\* (L * data[k] - sum) / (L * den); an empty array stays empty.
Residuals(a) ==
  LET L == Len(a.data)
      S == SumSeq(a.data)
  IN  IF L = 0 THEN a
      ELSE [shape |-> a.shape,
            data  |-> [k \in 1..L |-> L * a.data[k] - S],
            den   |-> L * a.den]

\* sum(a * a), held as [num, den]: the value is num / den^2.
SumSquares(a) ==
  Fin(Dot(a.data, a.data), a.den)

\* sqrt(xss * yss) of two sums of squares, held as [num, den]: the value
\* is sqrt(num) / den.
SqrtProduct(xss, yss) ==
  Fin(xss.num * yss.num, xss.den * yss.den)

\* sum(x * y) / denominator for x and y of the residuals' denominators: the
\* denominators cancel and the quotient is Dot / sqrt(denominator.num); it
\* is held as [num |-> Dot], in units of 1 / sqrt(denominator.num).  A zero
\* denominator gives numpy's nan (0 / 0) or a signed infinity.
Correlation(x, y, denom) ==
  LET N == Dot(x.data, y.data)
  IN  IF denom.num # 0 THEN Fin(N, 1)
      ELSE IF N = 0 THEN NaN
      ELSE IF N > 0 THEN Inf ELSE NegInf

\* xrange(perms): the indices the loop variable takes.
xrange_short(p) ==
  0..(p - 2)

xrange(p) ==
  0..(p - 1)

\* random.permutation(n): the orders it can return, as sequences whose
\* element k + 1 is order[k].
random_permutation(n) ==
  {p \in [1..n -> 0..(n - 1)] : \A a, b \in 1..n : a # b => p[a] # p[b]}

\* M[order, :]: row i of the result is row order[i] of M.
take_rows(M, order) ==
  [shape |-> M.shape,
   data  |-> [k \in 1..Len(M.data) |->
                At(M, order[((k - 1) \div M.shape[2]) + 1],
                      (k - 1) % M.shape[2])],
   den   |-> M.den]

\* M[:, order]: column j of the result is column order[j] of M.
take_cols(M, order) ==
  [shape |-> M.shape,
   data  |-> [k \in 1..Len(M.data) |->
                At(M, (k - 1) \div M.shape[2],
                      order[((k - 1) % M.shape[2]) + 1])],
   den   |-> M.den]

\* M[order, :] alone, the columns left in place.
permute_rows_only(M, order) ==
  take_rows(M, order)

\* M[order, :][:, order].
permute(M, order) ==
  take_cols(take_rows(M, order), order)

\* The memory of a 2-D array as the C routine reads it.  The result of the
\* second fancy index may be laid out row-major ("C") or column-major ("F"):
\* to_vector_from_squareform_wrap reads the memory as row-major either way.
Layouts ==
  {"C", "F"}

Memory(A, layout) ==
  IF layout = "C" THEN A.data
  ELSE [k \in 1..Len(A.data) |->
          At(A, (k - 1) % A.shape[1], (k - 1) \div A.shape[1])]

\* MC_corrs.mean(): sum / perms, held as [num |-> sum, den |-> perms] in the
\* samples' unit; nan when a sample is not a finite number.
Mean(s) ==
  IF \A k \in 1..Len(s) : s[k].k = "fin"
    THEN Fin(SumSeq([k \in 1..Len(s) |-> s[k].num]), Len(s))
    ELSE NaN

\* The sum of squared deviations from the mean, times Len(s).
Spread(s) ==
  LET S == SumSeq([k \in 1..Len(s) |-> s[k].num])
      Q == SumSeq([k \in 1..Len(s) |-> s[k].num * s[k].num])
  IN  Len(s) * Q - S * S

\* The standard deviation with Len(s) - 1 in the denominator (ddof = 1).
StdSample(s) ==
  IF Len(s) > 1 /\ \A k \in 1..Len(s) : s[k].k = "fin"
    THEN Fin(Spread(s), Len(s) - 1)
    ELSE NaN

\* MC_corrs.std(): the population standard deviation sqrt(spread) / perms,
\* held as [num |-> spread, den |-> perms]: the value is sqrt(num) / den.
Std(s) ==
  IF \A k \in 1..Len(s) : s[k].k = "fin"
    THEN Fin(Spread(s), Len(s))
    ELSE NaN

\* (r - m) / sd: with r = R, m = S / p and sd = sqrt(W) / p in the same unit
\* the quotient is (p * R - S) / sqrt(W), held as [num |-> p * R - S,
\* den |-> W].  A zero sd gives nan (0 / 0) or a signed infinity.
ZScore(r, m, sd) ==
  IF r.k # "fin" \/ m.k # "fin" \/ sd.k # "fin" THEN NaN
  ELSE LET N == m.den * r.num - m.num
       IN  IF sd.num # 0 THEN Fin(N, sd.num)
           ELSE IF N = 0 THEN NaN
           ELSE IF N > 0 THEN Inf ELSE NegInf

\* ------------------------------------------------------------------ state
VARIABLES
  argX, argY,                \* the caller's arrays
  perms, method,             \* the other arguments
  pc,                        \* the statement Test executes next
  X, Y,                      \* the local names X and Y
  X_res, Y_res,              \* residuals
  X_ss, Y_ss, denominator,   \* sums of squares and sqrt(X_ss * Y_ss)
  Y_res_as_matrix, n,        \* Y_res in matrix form and its size
  Y_res_permuted,            \* the buffer of the permuted vector
  MC_corrs,                  \* the Monte Carlo sample
  i, next_i,                 \* the loop variable and xrange's next index
  order,                     \* the order of the current trial
  Y_res_as_matrix_permuted,  \* the permuted matrix of the current trial
  r, m, sd, z,               \* the statistics
  outcome,                   \* how the call ended: an exception or a value
  trials,                    \* history: number of loop bodies executed
  writes,                    \* history: number of stores into each sample slot
  stamp                      \* history: the trial that last wrote each buffer entry

vars ==
  <<argX, argY, perms, method, pc, X, Y, X_res, Y_res, X_ss, Y_ss,
    denominator, Y_res_as_matrix, n, Y_res_permuted, MC_corrs, i, next_i,
    order, Y_res_as_matrix_permuted, r, m, sd, z, outcome, trials, writes,
    stamp>>

\* A name not yet bound.
NoArray ==
  [shape |-> <<0>>, data |-> <<>>, den |-> 1]

Unset ==
  [k |-> "unset", num |-> 0, den |-> 1]

NoOutcome ==
  [type |-> "none", msg |-> "", value |-> <<>>]

ValueError(msg) ==
  [type |-> "ValueError", msg |-> msg, value |-> <<>>]

Returned(tuple) ==
  [type |-> "return", msg |-> "", value |-> tuple]

\* ----------------------------------------------------------------- inputs
\* The method strings a caller passes: the two documented ones and another.
Methods ==
  {"pearson", "spearman", "kendall"}

\* Sample inputs: condensed vectors of 1 to 4 objects (with distinct, tied
\* and constant distances), a vector of a length that is no number of pairs,
\* redundant matrices, and arrays that are no distance matrix: asymmetric,
\* nonzero diagonal, not square, a row of zeros, 0-d and 3-d.
SampleInputs ==
  { Arr1(<<>>), Arr1(<<2>>), Arr1(<<1, 2>>), Arr1(<<1, 2, 3>>),
    Arr1(<<0, 1, 1>>), Arr1(<<2, 2, 2>>), Arr1(<<1, 2, 3, 4, 5, 6>>),
    Arr2(1, 1, <<0>>),
    Arr2(3, 3, <<0, 1, 2,  1, 0, 3,  2, 3, 0>>),
    Arr2(2, 2, <<0, 1,  2, 0>>),
    Arr2(2, 2, <<1, 2,  2, 1>>),
    Arr2(2, 3, <<0, 1, 2,  1, 0, 3>>),
    Arr2(1, 3, <<0, 0, 0>>),
    [shape |-> <<>>, data |-> <<5>>, den |-> 1],
    [shape |-> <<1, 1, 1>>, data |-> <<0>>, den |-> 1] }

\* Every array of at most MaxLen elements with distances in 0..MaxVal, in
\* every 1-D and 2-D shape, ...
Values ==
  0..MaxVal

AllVectors ==
  UNION {[1..L -> Values] : L \in 0..MaxLen}

SmallArrays ==
  {Arr1(v) : v \in AllVectors}
  \cup UNION {{Arr2(rows, Len(v) \div rows, v) :
                 rows \in {d \in 1..Len(v) : Len(v) % d = 0}} :
              v \in AllVectors}

\* ... every redundant matrix of an enumerated condensed vector, and every
\* matrix that differs from one in a single entry.
NearMatrices ==
  UNION {{[M EXCEPT !.data[k] = val] : k \in 1..Len(M.data), val \in Values} :
         M \in {squareform_tomatrix(Arr1(v)) :
                  v \in {w \in AllVectors : is_valid_y(Arr1(w))}}}

EnumeratedInputs ==
  SmallArrays \cup NearMatrices

\* The calls: every pair of sample inputs with every trial count and method,
\* and every enumerated input as X or as Y beside every sample input.
Calls ==
  [X : SampleInputs, Y : SampleInputs, perms : 1..MaxPerms, method : Methods]
  \cup [X : EnumeratedInputs, Y : SampleInputs, perms : {1}, method : {"pearson"}]
  \cup [X : SampleInputs, Y : EnumeratedInputs, perms : {1}, method : {"pearson"}]

Init ==
  /\ \E call \in Calls :
       /\ argX = call.X
       /\ argY = call.Y
       /\ perms = call.perms
       /\ method = call.method
  /\ pc = "asarray"
  /\ X = NoArray /\ Y = NoArray
  /\ X_res = NoArray /\ Y_res = NoArray
  /\ X_ss = Unset /\ Y_ss = Unset /\ denominator = Unset
  /\ Y_res_as_matrix = NoArray /\ n = 0
  /\ Y_res_permuted = NoArray
  /\ MC_corrs = <<>>
  /\ i = -1 /\ next_i = 0
  /\ order = <<>>
  /\ Y_res_as_matrix_permuted = NoArray
  /\ r = Unset /\ m = Unset /\ sd = Unset /\ z = Unset
  /\ outcome = NoOutcome
  /\ trials = 0 /\ writes = <<>> /\ stamp = <<>>

\* ---------------------------------------------------------------- actions
args ==
  <<argX, argY, perms, method>>

prepared ==
  <<X_res, Y_res, X_ss, Y_ss, denominator>>

loopvars ==
  <<Y_res_permuted, MC_corrs, i, next_i, order, Y_res_as_matrix_permuted,
    trials, writes, stamp>>

stats ==
  <<r, m, sd, z>>

\* raise ValueError(msg): the call ends, nothing else changes.
Raise(msg) ==
  /\ pc' = "raised"
  /\ outcome' = ValueError(msg)

\* Lines 41-42: asarray of an array of floats returns the array itself, so
\* the local names refer to the caller's arrays.
AsArray ==
  /\ pc = "asarray"
  /\ X' = argX
  /\ Y' = argY
  /\ pc' = "checkX"
  /\ UNCHANGED <<args, prepared, Y_res_as_matrix, n, loopvars, stats, outcome>>

\* X.shape[0] < Y.shape[0] in place of !=.
SizesDifferOneWay(a, b) ==
  a.shape[1] < b.shape[1]

\* Line 62: X.shape[0] != Y.shape[0].
SizesDiffer(a, b) ==
  a.shape[1] # b.shape[1]

\* Lines 46 and 49: is_valid_dm(A) == False and is_valid_y(A) == False.
NotValid(A) ==
  ~is_valid_dm(A) /\ ~is_valid_y(A)

\* Lines 46-47.
CheckX ==
  /\ pc = "checkX"
  /\ IF NotValid(X)
       THEN Raise("X is not a valid distance matrix")
       ELSE pc' = "checkY" /\ UNCHANGED outcome
  /\ UNCHANGED <<args, X, Y, prepared, Y_res_as_matrix, n, loopvars, stats>>

\* Lines 49-50.
CheckY ==
  /\ pc = "checkY"
  /\ IF NotValid(Y)
       THEN Raise("Y is not a valid distance matrix")
       ELSE pc' = "condenseX" /\ UNCHANGED outcome
  /\ UNCHANGED <<args, X, Y, prepared, Y_res_as_matrix, n, loopvars, stats>>

\* Lines 54-55: a 2-D X is rebound to its condensed vector; squareform
\* raises for a matrix that is not square.
CondenseX ==
  /\ pc = "condenseX"
  /\ IF Len(X.shape) = 2 /\ X.shape[1] # X.shape[2]
       THEN Raise("The matrix argument must be square.") /\ UNCHANGED X
       ELSE /\ X' = IF Len(X.shape) = 2 THEN squareform_tovector(X) ELSE X
            /\ pc' = "condenseY"
            /\ UNCHANGED outcome
  /\ UNCHANGED <<args, Y, prepared, Y_res_as_matrix, n, loopvars, stats>>

\* Lines 57-58.
CondenseY ==
  /\ pc = "condenseY"
  /\ IF Len(Y.shape) = 2 /\ Y.shape[1] # Y.shape[2]
       THEN Raise("The matrix argument must be square.") /\ UNCHANGED Y
       ELSE /\ Y' = IF Len(Y.shape) = 2 THEN squareform_tovector(Y) ELSE Y
            /\ pc' = "checkSize"
            /\ UNCHANGED outcome
  /\ UNCHANGED <<args, X, prepared, Y_res_as_matrix, n, loopvars, stats>>

\* Lines 62-63.
CheckSize ==
  /\ pc = "checkSize"
  /\ IF SizesDiffer(X, Y)
       THEN Raise("X and Y are not of equal size")
       ELSE pc' = "rank" /\ UNCHANGED outcome
  /\ UNCHANGED <<args, X, Y, prepared, Y_res_as_matrix, n, loopvars, stats>>

\* Lines 67-69: ranks for 'spearman'; any other method string falls through.
Rank ==
  /\ pc = "rank"
  /\ IF method = "spearman"
       THEN X' = rankdata(X) /\ Y' = rankdata(Y)
       ELSE UNCHANGED <<X, Y>>
  /\ pc' = "residuals"
  /\ UNCHANGED <<args, prepared, Y_res_as_matrix, n, loopvars, stats, outcome>>

\* Lines 73-77.
Prepare ==
  /\ pc = "residuals"
  /\ X_res' = Residuals(X)
  /\ Y_res' = Residuals(Y)
  /\ X_ss' = SumSquares(X_res')
  /\ Y_ss' = SumSquares(Y_res')
  /\ denominator' = SqrtProduct(X_ss', Y_ss')
  /\ pc' = "toMatrix"
  /\ UNCHANGED <<args, X, Y, Y_res_as_matrix, n, loopvars, stats, outcome>>

\* Lines 81-82; squareform raises for a length that is no number of pairs.
ToMatrix ==
  /\ pc = "toMatrix"
  /\ IF ~is_valid_y(Y_res)
       THEN /\ Raise("Incompatible vector size.")
            /\ UNCHANGED <<Y_res_as_matrix, n>>
       ELSE /\ Y_res_as_matrix' = squareform_tomatrix(Y_res)
            /\ n' = Y_res_as_matrix'.shape[1]
            /\ pc' = "alloc"
            /\ UNCHANGED outcome
  /\ UNCHANGED <<args, X, Y, prepared, loopvars, stats>>

\* Lines 86-87: the two zero arrays; the loop's iterator starts at 0.
Alloc ==
  /\ pc = "alloc"
  /\ Y_res_permuted' = Zeros(Y_res.shape[1])
  /\ MC_corrs' = [k \in 1..perms |-> Fin(0, 1)]
  /\ next_i' = 0
  /\ writes' = [k \in 1..perms |-> 0]
  /\ stamp' = [k \in 1..Y_res.shape[1] |-> -1]
  /\ pc' = "loop"
  /\ UNCHANGED <<args, X, Y, prepared, Y_res_as_matrix, n, i, order,
                 Y_res_as_matrix_permuted, trials, stats, outcome>>

\* Lines 91-95: one trial with the order o, leaving M_after as the matrix
\* form of Y_res.  The permuted matrix is a new array; the C routine
\* overwrites the buffer from the permuted matrix's memory; the correlation
\* is stored in slot i.
TrialWith(o, layout, M_after) ==
  /\ pc = "loop"
  /\ next_i \in xrange(perms)
  /\ i' = next_i
  /\ next_i' = next_i + 1
  /\ order' = o
  /\ Y_res_as_matrix_permuted' = permute(Y_res_as_matrix, o)
  /\ Y_res_as_matrix' = M_after
  /\ Y_res_permuted' =
       [Y_res_permuted EXCEPT
          !.data = to_vector_from_squareform_wrap(
                     Memory(Y_res_as_matrix_permuted', layout), n, @),
          !.den = Y_res_as_matrix_permuted'.den]
  /\ MC_corrs' = [MC_corrs EXCEPT
                    ![i' + 1] = Correlation(X_res, Y_res_permuted', denominator)]
  /\ trials' = trials + 1
  /\ writes' = [writes EXCEPT ![i' + 1] = @ + 1]
  /\ stamp' = to_vector_from_squareform_wrap([k \in 1..(n * n) |-> i'], n, stamp)
  /\ UNCHANGED <<args, pc, X, Y, prepared, n, stats, outcome>>

\* A trial that permutes Y_res_as_matrix in place.
TrialInPlace ==
  \E o \in random_permutation(n), layout \in Layouts :
    TrialWith(o, layout, permute(Y_res_as_matrix, o))

\* The order is any permutation of 0..n-1 and the fancy index copies, so
\* Y_res_as_matrix is left as it was.
Trial ==
  \E o \in random_permutation(n), layout \in Layouts :
    TrialWith(o, layout, Y_res_as_matrix)

\* Lines 99-104, once xrange is exhausted: the statistics and the return
\* of the 4-tuple.
Stats ==
  /\ pc = "loop"
  /\ next_i \notin xrange(perms)
  /\ r' = Correlation(X_res, Y_res, denominator)
  /\ m' = Mean(MC_corrs)
  /\ sd' = Std(MC_corrs)
  /\ z' = ZScore(r', m', sd')
  /\ outcome' = Returned(<<z', r', m', sd'>>)
  /\ pc' = "returned"
  /\ UNCHANGED <<args, X, Y, prepared, Y_res_as_matrix, n, loopvars>>

Next ==
  \/ AsArray
  \/ CheckX
  \/ CheckY
  \/ CondenseX
  \/ CondenseY
  \/ CheckSize
  \/ Rank
  \/ Prepare
  \/ ToMatrix
  \/ Alloc
  \/ Trial
  \/ Stats

Spec ==
  Init /\ [][Next]_vars

\* ------------------------------------------------- vocabulary of the claims
\* A condensed vector: 1-D, of length d * (d - 1) / 2 for an integer d.
IsCondensed(A) ==
  /\ Len(A.shape) = 1
  /\ \E d \in 0..(A.shape[1] + 1) : 2 * A.shape[1] = d * (d - 1)

\* A redundant matrix: 2-D, square, symmetric, zero diagonal.
IsRedundant(A) ==
  /\ Len(A.shape) = 2
  /\ A.shape[1] = A.shape[2]
  /\ \A a, b \in 0..(A.shape[1] - 1) : At(A, a, b) = At(A, b, a)
  /\ \A a \in 0..(A.shape[1] - 1) : At(A, a, a) = 0

ValidInput(A) ==
  IsCondensed(A) \/ IsRedundant(A)

\* The length of the condensed vector an input stands for.
CondensedLen(A) ==
  IF Len(A.shape) = 1 THEN A.shape[1]
  ELSE (A.shape[1] * (A.shape[1] - 1)) \div 2

Validated ==
  /\ ValidInput(argX)
  /\ ValidInput(argY)
  /\ CondensedLen(argX) = CondensedLen(argY)

Validating ==
  {"asarray", "checkX", "checkY", "condenseX", "condenseY", "checkSize"}

Computing ==
  {"rank", "residuals", "toMatrix", "alloc", "loop", "returned"}

InvalidMatrixError ==
  /\ outcome.type = "ValueError"
  /\ outcome.msg \in {"X is not a valid distance matrix",
                      "Y is not a valid distance matrix",
                      "The matrix argument must be square."}

SizeError ==
  /\ outcome.type = "ValueError"
  /\ outcome.msg = "X and Y are not of equal size"

\* The position (from 1) in a condensed vector of d objects of the pair
\* a < b, and the pair at position k.
PairIndex(a, b, d) ==
  (d * (d - 1)) \div 2 - ((d - a) * (d - a - 1)) \div 2 + (b - a)

PairAt(k, d) ==
  CHOOSE pr \in (0..(d - 1)) \X (0..(d - 1)) :
    pr[1] < pr[2] /\ PairIndex(pr[1], pr[2], d) = k

\* The entry of a condensed vector for the unordered pair {a, b}.
PairEntry(v, a, b, d) ==
  IF a < b THEN v[PairIndex(a, b, d)] ELSE v[PairIndex(b, a, d)]

SameMultiset(s, t) ==
  /\ Len(s) = Len(t)
  /\ \A k \in 1..Len(s) :
       Cardinality({j \in 1..Len(s) : s[j] = s[k]})
         = Cardinality({j \in 1..Len(t) : t[j] = s[k]})

Identity(d) ==
  [k \in 1..d |-> k - 1]

IsZero(x) ==
  x.k = "fin" /\ x.num = 0

NonFinite(x) ==
  x.k \in {"nan", "inf", "-inf"}

\* ----------------------------------------------------------------- claims
\* C1 (as stated): a call whose method is neither 'pearson' nor 'spearman'
\* fails before any computation proceeds: it never computes residuals, runs
\* a trial or returns.
C1_UnsupportedMethodFails ==
  method \notin {"pearson", "spearman"} =>
    /\ pc \notin {"toMatrix", "alloc", "loop", "returned"}
    /\ trials = 0
    /\ outcome.type # "return"

\* C2: Test fails with an invalid-distance-matrix error exactly when X or Y
\* is neither a condensed vector (1-D, a number of pairs long) nor a square
\* symmetric zero-diagonal matrix (2-D): such a call never gets past the
\* normalisation and ends in that error, and a call that ends in that error
\* has such an input.
C2_InvalidInputRejected ==
  /\ (~ValidInput(argX) \/ ~ValidInput(argY)) =>
       /\ pc \in Validating \cup {"raised"}
       /\ pc # "checkSize"
       /\ pc = "raised" => InvalidMatrixError
  /\ InvalidMatrixError => (~ValidInput(argX) \/ ~ValidInput(argY))
  /\ (pc = "checkY" => ValidInput(argX) \/ (Len(argX.shape) = 2 /\ argX.shape[1] = 1))

C2_Witness ==
  /\ pc = "raised"
  /\ outcome.msg = "X is not a valid distance matrix"
  /\ Len(argX.shape) = 2
  /\ argX.shape = <<3, 3>>
  /\ \A a \in 0..2 : At(argX, a, a) = 0
  /\ At(argX, 0, 1) # At(argX, 1, 0)

\* C3: for valid X and Y in any mix of forms, Test fails with the size
\* error if and only if the condensed lengths differ; a call that gets past
\* the size check works on two vectors of one common length d * (d - 1) / 2.
C3_SizeMismatch ==
  (ValidInput(argX) /\ ValidInput(argY)) =>
    /\ outcome.type = "ValueError" =>
         SizeError /\ CondensedLen(argX) # CondensedLen(argY)
    /\ CondensedLen(argX) # CondensedLen(argY) =>
         pc \in Validating \cup {"raised"}
    /\ pc \in Computing =>
         /\ Len(X.shape) = 1 /\ Len(Y.shape) = 1
         /\ X.shape[1] = Y.shape[1]
         /\ X.shape[1] = CondensedLen(argX)
         /\ Y.shape[1] = CondensedLen(argY)
         /\ \E d \in 0..(X.shape[1] + 1) : 2 * X.shape[1] = d * (d - 1)

C3_Witness ==
  /\ pc = "raised"
  /\ SizeError
  /\ IsRedundant(argX)
  /\ IsCondensed(argY)
  /\ CondensedLen(argX) = 3
  /\ CondensedLen(argY) = 6

C5_DegenerateFails ==
  (Validated /\ (perms = 1 \/ IsZero(sd))) => pc # "returned"

\* C5 (amended): a valid call with perms = 1 never fails; its sd is 0 (nan
\* when the denominator is 0), and whenever sd is 0 the call returns the
\* 4-tuple with a z that is not finite.
C5_DegenerateReturnsNonFinite ==
  /\ (Validated /\ perms = 1) => pc # "raised"
  /\ (pc = "returned" /\ perms = 1) =>
       /\ denominator.num # 0 => IsZero(sd)
       /\ denominator.num = 0 => sd.k = "nan"
       /\ NonFinite(z)
  /\ (pc = "returned" /\ IsZero(sd)) => NonFinite(z)
  /\ (pc = "returned" /\ IsZero(sd)) =>
       /\ outcome.type = "return"
       /\ outcome.value = <<z, r, m, sd>>

C5_Witness ==
  /\ pc = "returned"
  /\ perms = 1
  /\ IsZero(sd)
  /\ z.k = "inf"
  /\ r.k = "fin"

\* C6: the loop runs exactly perms trials: trial i stores into slot i once,
\* no slot is stored twice or skipped, the loop can always go on until
\* xrange is exhausted, and when the statistics are computed the sample is
\* perms long with every slot stored once, the last by the last trial.
C6_ExactlyPermsTrials ==
  /\ pc = "loop" =>
       /\ trials = next_i
       /\ next_i <= perms
       /\ Len(MC_corrs) = perms
       /\ \A k \in 1..perms : writes[k] = (IF k <= trials THEN 1 ELSE 0)
       /\ ENABLED Next
  /\ pc = "returned" =>
       /\ trials = perms
       /\ i = perms - 1
       /\ Len(MC_corrs) = perms
       /\ \A k \in 1..perms : writes[k] = 1
  /\ (pc \in {"loop", "returned"} /\ trials > 0) =>
       MC_corrs[trials] = Correlation(X_res, Y_res_permuted, denominator)

C6_Witness ==
  /\ pc = "returned"
  /\ perms = 2
  /\ trials = 2
  /\ writes = <<1, 1>>
  /\ MC_corrs[1] # MC_corrs[2]

\* C7: no step writes the caller's X or Y; no trial changes the matrix form
\* of Y_res, X_res, Y_res or the denominator; and r is the correlation of
\* the residuals of the working vectors in their original order.
C7_InputsAndResidualsUnchanged ==
  [][/\ argX' = argX
     /\ argY' = argY
     /\ pc = "loop" =>
          /\ Y_res_as_matrix' = Y_res_as_matrix
          /\ X_res' = X_res
          /\ Y_res' = Y_res
          /\ denominator' = denominator
     /\ (pc = "loop" /\ pc' = "returned") =>
          /\ Y_res_as_matrix' = squareform_tomatrix(Residuals(Y))
          /\ r' = Correlation(Residuals(X), Residuals(Y),
                              SqrtProduct(SumSquares(Residuals(X)),
                                          SumSquares(Residuals(Y))))]_vars

C7_Witness ==
  /\ pc = "returned"
  /\ trials = 2
  /\ order # Identity(n)
  /\ Len(argY.shape) = 2
  /\ n = 3
  /\ r.k = "fin"
  /\ Y_res_permuted.data # Y_res.data

\* C8: in every trial the order is a bijection of 0..n-1, the matrix form M
\* of Y_res is symmetric with a zero diagonal, and the permuted matrix has
\* M'[a][b] = M[order[a]][order[b]] and is again symmetric with a zero
\* diagonal.
C8_PermutedMatrix ==
  trials > 0 =>
    /\ Len(order) = n
    /\ {order[k] : k \in 1..n} = 0..(n - 1)
    /\ IsRedundant(Y_res_as_matrix)
    /\ Y_res_as_matrix_permuted.shape = <<n, n>>
    /\ \A a, b \in 0..(n - 1) :
         At(Y_res_as_matrix_permuted, a, b)
           = At(Y_res_as_matrix, order[a + 1], order[b + 1])
    /\ IsRedundant(Y_res_as_matrix_permuted)

C8_Witness ==
  /\ trials > 0
  /\ n = 4
  /\ order = <<1, 2, 0, 3>>
  /\ Y_res_as_matrix_permuted # Y_res_as_matrix
  /\ At(Y_res_as_matrix_permuted, 0, 1) # At(Y_res_as_matrix_permuted, 0, 2)

\* C9: each trial overwrites the whole buffer before its correlation is
\* computed: after trial i every one of the n * (n - 1) / 2 entries was last
\* written by trial i, and the sample of trial i is what its order gives
\* from Y_res alone, whatever the buffer held before.
C9_BufferOverwritten ==
  trials > 0 =>
    /\ Len(stamp) = (n * (n - 1)) \div 2
    /\ Len(Y_res_permuted.data) = Len(stamp)
    /\ \A k \in 1..Len(stamp) : stamp[k] = i
    /\ MC_corrs[i + 1] =
         Correlation(X_res,
                     [data |-> [k \in 1..Len(stamp) |->
                                  PairEntry(Y_res.data,
                                            order[PairAt(k, n)[1] + 1],
                                            order[PairAt(k, n)[2] + 1], n)]],
                     denominator)

C9_Witness ==
  /\ trials = 2
  /\ n = 3
  /\ order = Identity(n)
  /\ MC_corrs[1] # MC_corrs[2]
  /\ \A k \in 1..3 : stamp[k] = 1

\* C10: after every trial the buffer is a rearrangement of Y_res: its entry
\* for the pair (a, b) is the entry of Y_res for (order[a], order[b]), it
\* has the same multiset of values, so the same sum of squares Y_ss and the
\* sum 0; and with the identity order the sample is the veridical r.
C10_Rearrangement ==
  trials > 0 =>
    /\ \A a, b \in 0..(n - 1) :
         a < b => PairEntry(Y_res_permuted.data, a, b, n)
                    = PairEntry(Y_res.data, order[a + 1], order[b + 1], n)
    /\ Y_res_permuted.den = Y_res.den
    /\ SameMultiset(Y_res_permuted.data, Y_res.data)
    /\ SumSquares(Y_res_permuted) = Y_ss
    /\ SumSeq(Y_res_permuted.data) = 0
    /\ order = Identity(n) =>
         /\ Y_res_permuted = Y_res
         /\ MC_corrs[i + 1] = Correlation(X_res, Y_res, denominator)
         /\ pc = "returned" /\ perms = 1 => MC_corrs[1] = r

C10_Witness ==
  /\ pc = "returned"
  /\ n = 4
  /\ order # Identity(n)
  /\ Y_res_permuted.data # Y_res.data
  /\ MC_corrs[i + 1].k = "fin"
  /\ MC_corrs[i + 1] # r

====
